---- MODULE Spec2Model ----
(***************************************************************************)
(* State-machine model of the Bedrock knowledge-base chat backend          *)
(* (bedrock.py) and of the chat tab of the Streamlit front end (app.py).   *)
(*                                                                         *)
(* Strings that the code only compares for equality are TLA+ strings.      *)
(* Strings that the code searches (model ids and model ARNs, `in`) are     *)
(* sequences of characters.  A formatted text (an f-string) is the         *)
(* sequence of its pieces, so "the text contains X" is membership of the   *)
(* piece X.  Profile names are their rank in lexicographic order.          *)
(***************************************************************************)
EXTENDS Integers, Sequences, FiniteSets, TLC

(***************************************************************************)
(* Bounds of the model.                                                    *)
(***************************************************************************)
MaxCap == 2          \* MAX_MESSAGES is drawn from 0..MaxCap
MaxProfiles == 2     \* the listing call returns at most this many profiles
MaxCallers == 2      \* concurrent callers of the resolver
MaxRounds == 2       \* resolver calls made by each concurrent caller
MaxSubmits == 2      \* user submissions handled by one UI session

(***************************************************************************)
(* Runtime configuration that is fixed text (bedrock.py:13-16).            *)
(***************************************************************************)
PROFILE == ""
REGION == "us-east-1"
KB_ID == "WU69M0JTMY"
MODEL_ID == <<"s", "4">>

\* lru_cache(maxsize=2) on resolve_inference_profile_arn
CACHE_MAXSIZE == 2

\* no ARN: the unset INFERENCE_PROFILE_ARN (""), and "no value returned"
NoArn == ""

\* The logical model ids a caller may pass to the resolver.
ModelIds == {MODEL_ID, <<"s">>, <<"h">>}

\* modelArn values of the models of a profile; <<>> is a missing modelArn,
\* which the code reads as "" (m.get("modelArn") or "").
ModelArnS4 == <<"m", "s", "4">>
ModelArnH == <<"m", "h">>
ModelLists == {<<>>, <<ModelArnS4>>, <<(<<>>), ModelArnH>>}

ProfileTypes == {"SYSTEM_DEFINED", "APPLICATION"}
ProfileNames == 1..2
ArnPool == <<"arn:ip1", "arn:ip2", "arn:ip3", "arn:ip4">>
ProfileArns == {ArnPool[i] : i \in 1..MaxProfiles}
OverrideArn == "arn:override"

\* A remote inference profile: what list_inference_profiles summarises and
\* get_inference_profile details.
ProfileRecords ==
    [inferenceProfileArn : ProfileArns, name : ProfileNames,
     type : ProfileTypes, models : ModelLists]

\* s in t, for Python strings
IsSubstring(s, t) ==
    \E i \in 0..(Len(t) - Len(s)) : SubSeq(t, i + 1, i + Len(s)) = s

\* tok occurs in a formatted text
Contains(text, tok) == \E i \in 1..Len(text) : text[i] = tok

\* sequence s without its first n elements (n clamped as Python slices are)
Drop(s, n) ==
    LET k == IF n < 0 THEN 0 ELSE IF n > Len(s) THEN Len(s) ELSE n
    IN  SubSeq(s, k + 1, Len(s))

(***************************************************************************)
(* ChatMessage and the history operations.                                 *)
(***************************************************************************)
ChatMessage(role, text) == [role |-> role, text |-> text]

\* if len(message_history) > MAX_MESSAGES: del message_history[0 : len - MAX]
TrimKeepOldest(h, max) == IF Len(h) > max THEN SubSeq(h, 1, max) ELSE h
Trim(h, max) == IF Len(h) > max THEN Drop(h, Len(h) - max) ELSE h

ConvertDropsText(h) ==
    [i \in 1..Len(h) |-> [role |-> h[i].role, content |-> <<>>]]
convert_chat_messages_to_converse_api(h) ==
    [i \in 1..Len(h) |-> [role |-> h[i].role, content |-> <<h[i].text>>]]

(***************************************************************************)
(* Errors: type(e).__name__ and str(e).                                    *)
(***************************************************************************)
Err(type, msg) == [type |-> type, msg |-> msg]
NoErr == Err("", "")
ErrText(e) == <<e.type, ": ", e.msg>>

(***************************************************************************)
(* The remote side.  A remote state is the listing of inference profiles   *)
(* (in the order list_inference_profiles returns them) and which of the    *)
(* two control-plane calls currently fails.                                *)
(***************************************************************************)
RemoteFaults == {"none", "list", "detail"}

Remote(profiles, fault) == [profiles |-> profiles, fault |-> fault]

\* sequences of at most MaxProfiles profiles with pairwise distinct ARNs
Listings ==
    UNION {{s \in [1..n -> ProfileRecords] :
              \A i, j \in 1..n :
                 i # j => s[i].inferenceProfileArn # s[j].inferenceProfileArn}
           : n \in 0..MaxProfiles}

(***************************************************************************)
(* resolve_inference_profile_arn (bedrock.py:66-82).                       *)
(***************************************************************************)
\* key=lambda p: (p.get("type") != "SYSTEM_DEFINED", p.get("name", ""))
SortKeyMutant(p) == <<0, p.name>>
SortKey(p) == <<IF p.type # "SYSTEM_DEFINED" THEN 1 ELSE 0, p.name>>

KeyLess(a, b) == a[1] < b[1] \/ (a[1] = b[1] /\ a[2] < b[2])

\* insert p behind every element whose key is not greater (stable)
InsertByKey(sorted, p) ==
    LET before == {i \in 1..Len(sorted) : ~KeyLess(SortKey(p), SortKey(sorted[i]))}
        n == Cardinality(before)
    IN  SubSeq(sorted, 1, n) \o <<p>> \o SubSeq(sorted, n + 1, Len(sorted))

\* sorted(summaries, key=...): Python's sort is stable
RECURSIVE Ordered(_)
Ordered(summaries) ==
    IF summaries = <<>> THEN <<>>
    ELSE InsertByKey(Ordered(SubSeq(summaries, 1, Len(summaries) - 1)),
                     summaries[Len(summaries)])

\* any model of the detail whose modelArn contains model_id
Matches(detail, model_id) ==
    \E k \in 1..Len(detail.models) : IsSubstring(model_id, detail.models[k])

ResolveReturn(arn, calls) ==
    [raised |-> FALSE, arn |-> arn, err |-> NoErr, calls |-> calls]
ResolveRaise(err, calls) ==
    [raised |-> TRUE, arn |-> NoArn, err |-> err, calls |-> calls]

\* the loop over ordered, from position i
RECURSIVE ScanAll(_, _, _, _)
ScanAll(ordered, i, model_id, fault) ==
    IF i > Len(ordered)
    THEN ResolveRaise(Err("RuntimeError", "No inference profile contains"), <<>>)
    ELSE IF fault = "detail"
    THEN ResolveRaise(Err("ClientError", "get_inference_profile"),
                      <<"get_inference_profile">>)
    ELSE LET rest == ScanAll(ordered, i + 1, model_id, fault)
         IN  IF Matches(ordered[i], model_id)
             THEN ResolveReturn(ordered[i].inferenceProfileArn,
                                <<"get_inference_profile">> \o rest.calls)
             ELSE [rest EXCEPT !.calls = <<"get_inference_profile">> \o @]
RECURSIVE Scan(_, _, _, _)
Scan(ordered, i, model_id, fault) ==
    IF i > Len(ordered)
    THEN ResolveRaise(Err("RuntimeError", "No inference profile contains"), <<>>)
    ELSE IF fault = "detail"
    THEN ResolveRaise(Err("ClientError", "get_inference_profile"),
                      <<"get_inference_profile">>)
    ELSE IF Matches(ordered[i], model_id)
    THEN ResolveReturn(ordered[i].inferenceProfileArn, <<"get_inference_profile">>)
    ELSE LET rest == Scan(ordered, i + 1, model_id, fault)
         IN  [rest EXCEPT !.calls = <<"get_inference_profile">> \o @]

\* the automatic search (bedrock.py:73-82)
Search(remote, model_id) ==
    IF remote.fault = "list"
    THEN ResolveRaise(Err("ClientError", "list_inference_profiles"),
                      <<"list_inference_profiles">>)
    ELSE LET r == Scan(Ordered(remote.profiles), 1, model_id, remote.fault)
         IN  [r EXCEPT !.calls = <<"list_inference_profiles">> \o @]

\* the undecorated function body: the configured ARN first
ResolveBodyMutant(remote, override, model_id) ==
    LET r == Search(remote, model_id)
    IN  IF r.raised /\ override # NoArn THEN ResolveReturn(override, r.calls)
        ELSE r
ResolveBody(remote, override, model_id) ==
    IF override # NoArn THEN ResolveReturn(override, <<>>)
    ELSE Search(remote, model_id)

(***************************************************************************)
(* functools.lru_cache(maxsize=2): the entries, least recently used first. *)
(***************************************************************************)
CacheHas(c, key) == \E i \in 1..Len(c) : c[i].key = key
CacheGet(c, key) == (CHOOSE i \in 1..Len(c) : c[i].key = key)

\* a hit moves the entry to the most-recently-used end
CacheTouch(c, key) ==
    LET i == CacheGet(c, key)
    IN  SubSeq(c, 1, i - 1) \o SubSeq(c, i + 1, Len(c)) \o <<c[i]>>

\* a miss stores the result; a full cache drops its oldest entry.  A key
\* that another caller stored meanwhile is left as it is.
CachePutMutant(c, key, value) ==
    IF CacheHas(c, key) THEN c
    ELSE LET added == Append(c, [key |-> key, value |-> NoArn])
         IN  IF Len(added) > CACHE_MAXSIZE THEN Drop(added, 1) ELSE added
CachePut(c, key, value) ==
    IF CacheHas(c, key) THEN c
    ELSE LET added == Append(c, [key |-> key, value |-> value])
         IN  IF Len(added) > CACHE_MAXSIZE THEN Drop(added, 1) ELSE added

\* the decorated function: result, remote calls issued, and the cache after
ResolveCachesFailure(c, remote, override, model_id) ==
    IF CacheHas(c, model_id)
    THEN [raised |-> FALSE, arn |-> c[CacheGet(c, model_id)].value,
          err |-> NoErr, calls |-> <<>>, cache |-> CacheTouch(c, model_id)]
    ELSE LET r == ResolveBody(remote, override, model_id)
         IN  [raised |-> r.raised, arn |-> r.arn, err |-> r.err,
              calls |-> r.calls, cache |-> CachePut(c, model_id, r.arn)]
resolve_inference_profile_arn(c, remote, override, model_id) ==
    IF CacheHas(c, model_id)
    THEN [raised |-> FALSE, arn |-> c[CacheGet(c, model_id)].value,
          err |-> NoErr, calls |-> <<>>, cache |-> CacheTouch(c, model_id)]
    ELSE LET r == ResolveBody(remote, override, model_id)
         IN  [raised |-> r.raised, arn |-> r.arn, err |-> r.err,
              calls |-> r.calls,
              cache |-> IF r.raised THEN c ELSE CachePut(c, model_id, r.arn)]

(***************************************************************************)
(* Outcomes of the data-plane and diagnostic calls of one chat call.       *)
(***************************************************************************)
RagOutcomes == {"ok", "ResourceNotFoundException", "AccessDeniedException",
                "ThrottlingException"}
ConverseOutcomes == {"ok", "ThrottlingException"}
\* the identity lookup: it answers, get_caller_identity fails, or the sts
\* client cannot be created (then no call is issued).  The model lets the
\* client creation fail at any call, also after it once succeeded.
StsOutcomes == {"ok", "fail", "no_client"}
\* list_knowledge_bases: it fails, or returns these summaries
KbSummary == [knowledgeBaseId |-> "KB0000001", name |-> "docs", status |-> "ACTIVE"]
KbListOutcomes == {"fail", "none", "one"}

GeneratedText == <<"generated answer">>
\* the texts a successful generation request may return
GenTexts == {GeneratedText, <<"other answer">>}
UserTexts == {<<"q1">>, <<"q2">>}

\* the exception of _sts().get_caller_identity() (bedrock.py:60)
StsError(sts) ==
    IF sts = "fail" THEN Err("ClientError", "ExpiredToken")
    ELSE Err("ProfileNotFound", "no such profile")

\* the remote calls the identity probe issues
StsCalls(sts) == IF sts = "no_client" THEN <<>> ELSE <<"get_caller_identity">>

\* _caller_identity_safe (bedrock.py:58-63): the text it returns, or the
\* exception that leaves it
CallerIdentityMutant(sts) ==
    IF sts = "ok"
    THEN [raised |-> FALSE, err |-> NoErr,
          text |-> <<"account=", "123456789012", " arn=", "arn:caller">>]
    ELSE [raised |-> TRUE, err |-> StsError(sts), text |-> <<>>]
_caller_identity_safe(sts) ==
    IF sts = "ok"
    THEN [raised |-> FALSE, err |-> NoErr,
          text |-> <<"account=", "123456789012", " arn=", "arn:caller">>]
    ELSE [raised |-> FALSE, err |-> NoErr,
          text |-> <<"(caller identity lookup failed: ">>
                   \o ErrText(StsError(sts)) \o <<")">>]

ProfileOrRole == IF PROFILE # "" THEN PROFILE ELSE "instance-role"

\* the try/except around list_knowledge_bases (bedrock.py:160-167)
KbListText(kbs) ==
    IF kbs = "fail"
    THEN <<"(KB list failed: ">> \o ErrText(Err("ClientError", "AccessDenied"))
         \o <<")">>
    ELSE IF kbs = "none" THEN <<"(none)">>
    ELSE <<"- ", KbSummary.knowledgeBaseId, " | ", KbSummary.name, " | ",
           KbSummary.status>>

\* bedrock.py:169-176
NotFoundTextMutant(ident, kb_list) ==
    <<"Knowledge Base not found.", "- Provided KB_ID: ", KB_ID, "- ">>
    \o ident \o <<"- KBs in this account/region:">> \o kb_list
NotFoundText(ident, kb_list) ==
    <<"Knowledge Base not found.", "- Provided KB_ID: ", KB_ID,
      "- Region: ", REGION, "- ">> \o ident
    \o <<"- KBs in this account/region:">> \o kb_list
    \o <<"Replace KB_ID with a valid one in this account/region.">>

\* bedrock.py:179-183
AccessDeniedText(e) ==
    <<"AccessDenied: ", e.msg, "Ensure caller has: ...">>

\* bedrock.py:187 and bedrock.py:102
GenericErrorText(what, e, ident) ==
    <<"Error during ", what, ": ">> \o ErrText(e) \o <<"identity: ">> \o ident
    \o <<"region=", REGION, ", profile=", ProfileOrRole>>

\* what one call of a chat function did; ip is the resolver's result, raised
\* and err the exception that left the chat function, if any
ChatResult(h, ip, raised, err, output, calls, appended, request) ==
    [history |-> h, raised |-> raised, err |-> err, ip_arn |-> ip.arn,
     output |-> output, cache |-> ip.cache, calls |-> ip.calls \o calls,
     appended |-> appended, request |-> request]

Reply(raised, err, output, calls) ==
    [raised |-> raised, err |-> err, output |-> output, calls |-> calls]

\* the try/except of chat_with_kb (bedrock.py:129-187): text and calls
KbReplyRetry(env) ==
    Reply(FALSE, NoErr, env.gen,
          IF env.rag = "ok" THEN <<"retrieve_and_generate">>
          ELSE <<"retrieve_and_generate", "retrieve_and_generate">>)
KbReplyProbeAlways(env) ==
    LET ident == _caller_identity_safe(env.sts)
    IN  IF env.rag = "ok"
        THEN Reply(FALSE, NoErr, env.gen, <<"retrieve_and_generate">>)
        ELSE IF env.rag = "ResourceNotFoundException"
        THEN Reply(ident.raised, ident.err,
                   NotFoundText(ident.text, KbListText(env.kbs)),
                   <<"retrieve_and_generate", "list_knowledge_bases">>
                   \o StsCalls(env.sts))
        ELSE IF env.rag = "AccessDeniedException"
        THEN Reply(FALSE, NoErr,
                   AccessDeniedText(Err(env.rag, "not authorized")),
                   <<"retrieve_and_generate">> \o StsCalls(env.sts))
        ELSE Reply(ident.raised, ident.err,
                   GenericErrorText("retrieve_and_generate",
                                    Err(env.rag, "rate exceeded"), ident.text),
                   <<"retrieve_and_generate">> \o StsCalls(env.sts))
KbReply(env) ==
    LET ident == _caller_identity_safe(env.sts)
    IN  IF env.rag = "ok"
        THEN Reply(FALSE, NoErr, env.gen, <<"retrieve_and_generate">>)
        ELSE IF env.rag = "ResourceNotFoundException"
        THEN Reply(ident.raised, ident.err,
                   NotFoundText(ident.text, KbListText(env.kbs)),
                   <<"retrieve_and_generate", "list_knowledge_bases">>
                   \o StsCalls(env.sts))
        ELSE IF env.rag = "AccessDeniedException"
        THEN Reply(FALSE, NoErr,
                   AccessDeniedText(Err(env.rag, "not authorized")),
                   <<"retrieve_and_generate">>)
        ELSE Reply(ident.raised, ident.err,
                   GenericErrorText("retrieve_and_generate",
                                    Err(env.rag, "rate exceeded"), ident.text),
                   <<"retrieve_and_generate">> \o StsCalls(env.sts))

\* chat_with_kb (bedrock.py:108-190)
ChatWithKbNoReturn(h, new_text, max, c, remote, override, env) ==
    LET h1 == Trim(Append(h, ChatMessage("user", new_text)), max)
        ip == resolve_inference_profile_arn(c, remote, override, MODEL_ID)
        reply == KbReply(env)
    IN  IF ip.raised
        THEN ChatResult(h1, ip, TRUE, ip.err, <<>>, <<>>, <<"user">>, <<>>)
        ELSE ChatResult(Append(h1, ChatMessage("assistant", reply.output)),
                        ip, FALSE, NoErr, <<>>, reply.calls,
                        <<"user", "assistant">>, <<>>)
chat_with_kb(h, new_text, max, c, remote, override, env) ==
    LET h1 == Trim(Append(h, ChatMessage("user", new_text)), max)
        ip == resolve_inference_profile_arn(c, remote, override, MODEL_ID)
        reply == KbReply(env)
    IN  IF ip.raised
        THEN ChatResult(h1, ip, TRUE, ip.err, <<>>, <<>>, <<"user">>, <<>>)
        ELSE IF reply.raised
        THEN ChatResult(h1, ip, TRUE, reply.err, <<>>, reply.calls,
                        <<"user">>, <<>>)
        ELSE ChatResult(Append(h1, ChatMessage("assistant", reply.output)),
                        ip, FALSE, NoErr, reply.output, reply.calls,
                        <<"user", "assistant">>, <<>>)

\* the try/except of chat_with_model (bedrock.py:93-102)
ModelReply(env) ==
    LET ident == _caller_identity_safe(env.sts)
    IN  IF env.rag = "ok"
        THEN Reply(FALSE, NoErr, env.gen, <<"converse">>)
        ELSE Reply(ident.raised, ident.err,
                   GenericErrorText("converse", Err(env.rag, "rate exceeded"),
                                    ident.text),
                   <<"converse">> \o StsCalls(env.sts))

\* chat_with_model (bedrock.py:85-105)
chat_with_model(h, new_text, max, c, remote, override, env) ==
    LET h1 == Trim(Append(h, ChatMessage("user", new_text)), max)
        ip == resolve_inference_profile_arn(c, remote, override, MODEL_ID)
        reply == ModelReply(env)
        request == convert_chat_messages_to_converse_api(h1)
    IN  IF ip.raised
        THEN ChatResult(h1, ip, TRUE, ip.err, <<>>, <<>>, <<"user">>, <<>>)
        ELSE IF reply.raised
        THEN ChatResult(h1, ip, TRUE, reply.err, <<>>, reply.calls,
                        <<"user">>, request)
        ELSE ChatResult(Append(h1, ChatMessage("assistant", reply.output)),
                        ip, FALSE, NoErr, reply.output, reply.calls,
                        <<"user", "assistant">>, request)

\* the outcomes one chat_with_kb call can meet; a call that is not issued
\* has no outcome (kbs "none", sts "ok" stand for "not called")
KbEnvs ==
    {e \in [rag : RagOutcomes, gen : GenTexts, kbs : KbListOutcomes,
            sts : StsOutcomes] :
        /\ e.rag # "ok" => e.gen = GeneratedText
        /\ e.rag # "ResourceNotFoundException" => e.kbs = "none"
        /\ e.rag \in {"ok", "AccessDeniedException"} => e.sts = "ok"}
\* the outcomes one chat_with_model call can meet
ModelEnvs ==
    {e \in [rag : ConverseOutcomes, gen : GenTexts, kbs : {"none"},
            sts : StsOutcomes] :
        /\ e.rag # "ok" => e.gen = GeneratedText
        /\ e.rag = "ok" => e.sts = "ok"}
NoEnv == [rag |-> "ok", gen |-> GeneratedText, kbs |-> "none", sts |-> "ok"]

(***************************************************************************)
(* State.                                                                  *)
(***************************************************************************)
VARIABLES
    MAX_MESSAGES,           \* int(os.getenv("MAX_MESSAGES", "20")), fixed at import
    INFERENCE_PROFILE_ARN,  \* os.getenv("INFERENCE_PROFILE_ARN", ""), fixed at import
    HAVE_BACKEND,           \* app.py: whether `import bedrock` succeeded
    message_history,        \* the list the chat functions mutate
    remote,                 \* the inference profiles of the account/region
    cache,                  \* the lru_cache of resolve_inference_profile_arn
    resolved,               \* history: the first ARN returned for each model id
    last,                   \* history: what the most recent call did
    callers                 \* concurrent resolver calls in progress

vars == <<MAX_MESSAGES, INFERENCE_PROFILE_ARN, HAVE_BACKEND, message_history,
          remote, cache, resolved, last, callers>>

config == <<MAX_MESSAGES, INFERENCE_PROFILE_ARN, HAVE_BACKEND>>

\* the record of one call: op is the function, arg its argument, err the
\* exception it raised; after_raise says that the call before it was the
\* same function with the same argument and raised
Call(op, arg, env, raised, err, arn, output, calls, appended, request, prior, after_raise) ==
    [op |-> op, arg |-> arg, env |-> env, raised |-> raised, err |-> err,
     arn |-> arn, output |-> output, calls |-> calls, appended |-> appended,
     request |-> request, prior |-> prior, after_raise |-> after_raise]
NoCall == Call("none", <<>>, NoEnv, FALSE, NoErr, NoArn, <<>>, <<>>, <<>>, <<>>,
               NoArn, FALSE)

\* the call before this one was op(arg) and raised
AfterRaise(c, op, arg) == c.op = op /\ c.arg = arg /\ c.raised

\* resolved, after a resolver call for model_id returned r
Resolved(res, model_id, raised, arn) ==
    IF ~raised /\ res[model_id] = NoArn
    THEN [res EXCEPT ![model_id] = arn] ELSE res

\* a profile that serves MODEL_ID, and the remote states the chat sees
ProfileS4 == [inferenceProfileArn |-> ArnPool[1], name |-> 1,
              type |-> "SYSTEM_DEFINED", models |-> <<ModelArnS4>>]
ProfileH == [inferenceProfileArn |-> ArnPool[2], name |-> 1,
             type |-> "APPLICATION", models |-> <<(<<>>), ModelArnH>>]
ProfileS4b == [inferenceProfileArn |-> ArnPool[2], name |-> 2,
               type |-> "APPLICATION", models |-> <<ModelArnS4>>]
Remotes == {Remote(<<ProfileS4>>, "none"), Remote(<<ProfileH>>, "none"),
            Remote(<<ProfileS4b, ProfileS4>>, "none"),
            Remote(<<ProfileS4b>>, "none"),
            Remote(<<ProfileS4>>, "list"), Remote(<<ProfileS4>>, "detail")}

\* a caller of the resolver: where it is in the call, the locals of the
\* function body, and the outcomes of the calls it has finished
IdleCaller == [pc |-> "idle", ordered |-> <<>>, i |-> 0, value |-> NoArn,
               rets |-> <<>>]
IdleCallers == [t \in 1..MaxCallers |-> IdleCaller]

Init ==
    /\ MAX_MESSAGES \in 0..MaxCap
    /\ INFERENCE_PROFILE_ARN \in {NoArn, OverrideArn}
    /\ HAVE_BACKEND = TRUE
    /\ message_history = <<>>
    /\ remote \in Remotes
    /\ cache = <<>>
    /\ resolved = [m \in ModelIds |-> NoArn]
    /\ last = NoCall
    /\ callers = IdleCallers

\* the state after a chat call that did r
AfterChat(op, new_text, env, r) ==
    /\ message_history' = r.history
    /\ cache' = r.cache
    /\ resolved' = Resolved(resolved, MODEL_ID, r.ip_arn = NoArn, r.ip_arn)
    /\ last' = Call(op, new_text, env, r.raised, r.err, r.ip_arn, r.output,
                    r.calls, r.appended, r.request, resolved[MODEL_ID],
                    AfterRaise(last, op, new_text))
    /\ UNCHANGED <<config, remote, callers>>

ChatWithKb ==
    \E new_text \in UserTexts, env \in KbEnvs :
        AfterChat("chat_with_kb", new_text, env,
                  chat_with_kb(message_history, new_text, MAX_MESSAGES, cache,
                               remote, INFERENCE_PROFILE_ARN, env))

ChatWithModel ==
    \E new_text \in UserTexts, env \in ModelEnvs :
        AfterChat("chat_with_model", new_text, env,
                  chat_with_model(message_history, new_text, MAX_MESSAGES, cache,
                                  remote, INFERENCE_PROFILE_ARN, env))

\* the account's profiles or the control plane's health change
RemoteChange ==
    /\ remote' \in Remotes \ {remote}
    /\ UNCHANGED <<config, message_history, cache, resolved, last, callers>>

Next == ChatWithKb \/ ChatWithModel \/ RemoteChange

Spec == Init /\ [][Next]_vars

(***************************************************************************)
(* The resolver called on its own, for any logical model id, while the     *)
(* remote profiles change.                                                 *)
(***************************************************************************)
InitResolve ==
    /\ MAX_MESSAGES = MaxCap
    /\ INFERENCE_PROFILE_ARN \in {NoArn, OverrideArn}
    /\ HAVE_BACKEND = TRUE
    /\ message_history = <<>>
    /\ remote \in Remotes
    /\ cache = <<>>
    /\ resolved = [m \in ModelIds |-> NoArn]
    /\ last = NoCall
    /\ callers = IdleCallers

ResolveCall ==
    \E model_id \in ModelIds :
        LET r == resolve_inference_profile_arn(cache, remote,
                                               INFERENCE_PROFILE_ARN, model_id)
        IN  /\ cache' = r.cache
            /\ resolved' = Resolved(resolved, model_id, r.raised, r.arn)
            /\ last' = Call("resolve", model_id, NoEnv, r.raised, r.err, r.arn,
                            <<>>, r.calls, <<>>, <<>>, resolved[model_id],
                            AfterRaise(last, "resolve", model_id))
            /\ UNCHANGED <<config, message_history, remote, callers>>

NextResolve == ResolveCall \/ RemoteChange

SpecResolve == InitResolve /\ [][NextResolve]_vars

(***************************************************************************)
(* The resolver as a function of the listing: one first call (empty cache, *)
(* no override) against every listing of at most MaxProfiles profiles.     *)
(***************************************************************************)
InitSelect ==
    /\ MAX_MESSAGES = MaxCap
    /\ INFERENCE_PROFILE_ARN = NoArn
    /\ HAVE_BACKEND = TRUE
    /\ message_history = <<>>
    /\ remote \in {Remote(l, f) : l \in Listings, f \in RemoteFaults}
    /\ cache = <<>>
    /\ resolved = [m \in ModelIds |-> NoArn]
    /\ last = NoCall
    /\ callers = IdleCallers

FirstResolve == last = NoCall /\ ResolveCall

SpecSelect == InitSelect /\ [][FirstResolve]_vars

(***************************************************************************)
(* Concurrent callers of resolve_inference_profile_arn(MODEL_ID) under a   *)
(* fixed remote state.  The cache lookup and the cache store are atomic    *)
(* (lru_cache holds the GIL); every remote call is a step of its own, and  *)
(* callers interleave between steps.                                       *)
(***************************************************************************)
InitConcurrent ==
    /\ MAX_MESSAGES = MaxCap
    /\ INFERENCE_PROFILE_ARN \in {NoArn, OverrideArn}
    /\ HAVE_BACKEND = TRUE
    /\ message_history = <<>>
    /\ remote \in Remotes
    /\ cache = <<>>
    /\ resolved = [m \in ModelIds |-> NoArn]
    /\ last = NoCall
    /\ callers = IdleCallers

Ret(out, hit) == [out |-> out, hit |-> hit]

\* the caller's call ends: it returns value, or raises
Finish(t, out, hit) ==
    [callers EXCEPT ![t] = [IdleCaller EXCEPT !.rets = Append(callers[t].rets,
                                                              Ret(out, hit))]]

ConcUnchanged == UNCHANGED <<config, message_history, remote, resolved, last>>

\* the lru_cache wrapper is entered: a hit returns at once
CallerEnter(t) ==
    /\ callers[t].pc = "idle"
    /\ Len(callers[t].rets) < MaxRounds
    /\ IF CacheHas(cache, MODEL_ID)
       THEN /\ cache' = CacheTouch(cache, MODEL_ID)
            /\ callers' = Finish(t, cache[CacheGet(cache, MODEL_ID)].value, TRUE)
       ELSE /\ cache' = cache
            /\ callers' = [callers EXCEPT ![t].pc = "body"]
    /\ ConcUnchanged

\* bedrock.py:69-76: the override, or the listing call and the sort
CallerList(t) ==
    /\ callers[t].pc = "body"
    /\ callers' =
         IF INFERENCE_PROFILE_ARN # NoArn
         THEN [callers EXCEPT ![t].pc = "store",
                              ![t].value = INFERENCE_PROFILE_ARN]
         ELSE IF remote.fault = "list"
         THEN Finish(t, "raised", FALSE)
         ELSE [callers EXCEPT ![t].pc = "scan",
                              ![t].ordered = Ordered(remote.profiles),
                              ![t].i = 1]
    /\ UNCHANGED cache
    /\ ConcUnchanged

\* bedrock.py:77-82: one iteration of the loop (one detail call), or its end
CallerDetail(t) ==
    LET c == callers[t]
    IN  /\ c.pc = "scan"
        /\ callers' =
             IF c.i > Len(c.ordered) \/ remote.fault = "detail"
             THEN Finish(t, "raised", FALSE)
             ELSE IF Matches(c.ordered[c.i], MODEL_ID)
             THEN [callers EXCEPT ![t].pc = "store",
                                  ![t].value = c.ordered[c.i].inferenceProfileArn]
             ELSE [callers EXCEPT ![t].i = c.i + 1]
        /\ UNCHANGED cache
        /\ ConcUnchanged

\* the wrapper stores the result and returns it
CallerStore(t) ==
    /\ callers[t].pc = "store"
    /\ cache' = CachePut(cache, MODEL_ID, callers[t].value)
    /\ callers' = Finish(t, callers[t].value, FALSE)
    /\ ConcUnchanged

NextConcurrent ==
    \E t \in 1..MaxCallers :
        CallerEnter(t) \/ CallerList(t) \/ CallerDetail(t) \/ CallerStore(t)

SpecConcurrent == InitConcurrent /\ [][NextConcurrent]_vars

(***************************************************************************)
(* The chat tab of app.py: one script run per user submission, on the      *)
(* session's chat_history.                                                 *)
(***************************************************************************)
InitApp ==
    /\ MAX_MESSAGES \in 0..MaxCap
    /\ INFERENCE_PROFILE_ARN \in {NoArn, OverrideArn}
    /\ HAVE_BACKEND \in BOOLEAN
    /\ message_history = <<>>
    /\ remote \in Remotes
    /\ cache = <<>>
    /\ resolved = [m \in ModelIds |-> NoArn]
    /\ last = NoCall
    /\ callers = IdleCallers

\* app.py:103
BackendErrorText(e) == <<"Backend error: ">> \o ErrText(e)
\* app.py:111
EchoText(input_text) == <<"Backend unavailable. (Echo) You said: ">> \o input_text

\* app.py:92-111: what the handler does to chat_history
Submit(h, input_text, have_backend, max, c, remote_, override, env) ==
    LET h0 == Append(h, ChatMessage("user", input_text))
        r == chat_with_kb(h0, input_text, max, c, remote_, override, env)
    IN  IF have_backend
        THEN IF r.raised
             THEN [r EXCEPT !.history =
                       Append(r.history,
                              ChatMessage("assistant", BackendErrorText(r.err))),
                     !.output = BackendErrorText(r.err),
                     !.appended = <<"user">> \o r.appended \o <<"assistant">>]
             ELSE [r EXCEPT !.appended = <<"user">> \o r.appended]
        ELSE [history |-> Append(h0, ChatMessage("assistant", EchoText(input_text))),
              raised |-> FALSE, err |-> NoErr, ip_arn |-> NoArn,
              output |-> EchoText(input_text), cache |-> c, calls |-> <<>>,
              appended |-> <<"user", "assistant">>, request |-> <<>>]

\* st.chat_input returned a text; an empty one is falsy and does nothing
AppSubmit ==
    \E input_text \in UserTexts \cup {<<>>}, env \in KbEnvs :
        /\ input_text # <<>>
        /\ Len(message_history) < 3 * MaxSubmits
        /\ LET r == Submit(message_history, input_text, HAVE_BACKEND,
                           MAX_MESSAGES, cache, remote, INFERENCE_PROFILE_ARN,
                           env)
           IN  /\ message_history' = r.history
               /\ cache' = r.cache
               /\ resolved' = IF HAVE_BACKEND
                               THEN Resolved(resolved, MODEL_ID,
                                             r.ip_arn = NoArn, r.ip_arn)
                               ELSE resolved
               /\ last' = Call("submit", input_text, env, FALSE, NoErr,
                               r.ip_arn, r.output, r.calls, r.appended, <<>>,
                               resolved[MODEL_ID], FALSE)
               /\ UNCHANGED <<config, remote, callers>>

NextApp == AppSubmit \/ RemoteChange

SpecApp == InitApp /\ [][NextApp]_vars

(***************************************************************************)
(* A conversation of chat_with_model calls that all return the model's     *)
(* answer: the target resolves and converse succeeds.                      *)
(***************************************************************************)
DirectChat ==
    \E new_text \in UserTexts, env \in {e \in ModelEnvs : e.rag = "ok"} :
        LET r == chat_with_model(message_history, new_text, MAX_MESSAGES, cache,
                                 remote, INFERENCE_PROFILE_ARN, env)
        IN  /\ ~r.raised
            /\ AfterChat("chat_with_model", new_text, env, r)

NextDirect == DirectChat \/ RemoteChange

SpecDirect == Init /\ [][NextDirect]_vars

(***************************************************************************)
(* Properties of the chat calls (Spec).                                    *)
(***************************************************************************)
IsChat(c) == c.op \in {"chat_with_kb", "chat_with_model"}

\* C1: whatever its outcome, a chat call appends exactly one user message
\* and then exactly one assistant message, which ends the history.
TurnCompleteness ==
    IsChat(last) =>
        /\ last.appended = <<"user", "assistant">>
        /\ message_history # <<>>
        /\ message_history[Len(message_history)].role = "assistant"

\* C2: after every chat call the history is no longer than MAX_MESSAGES.
HistoryBound == Len(message_history) <= MAX_MESSAGES

\* C3: read front to back, the history alternates user / assistant: no two
\* adjacent messages have the same role.
HistoryAlternates ==
    \A i \in 1..(Len(message_history) - 1) :
        message_history[i].role # message_history[i + 1].role

\* C4: chat_with_kb never terminates by raising to its caller.
NoFailurePropagation == last.op = "chat_with_kb" => ~last.raised

\* the call issued retrieve_and_generate, which raised resource-not-found
KbNotFound(c) ==
    /\ c.op = "chat_with_kb"
    /\ c.env.rag = "ResourceNotFoundException"
    /\ Contains(c.calls, "retrieve_and_generate")

\* C8: when retrieve_and_generate fails with resource-not-found, the call
\* returns normally, its text is non-empty and contains KB_ID and REGION, and
\* that text is the one assistant message the call appended, whatever the
\* outcomes of the knowledge-base listing and of the identity lookup.
NotFoundDiagnostic ==
    KbNotFound(last) =>
        /\ ~last.raised
        /\ last.output # <<>>
        /\ Contains(last.output, KB_ID)
        /\ Contains(last.output, REGION)
        /\ last.appended = <<"user", "assistant">>
        /\ message_history # <<>>
        /\ message_history[Len(message_history)]
              = ChatMessage("assistant", last.output)
NotFoundDiagnosticWitness ==
    /\ KbNotFound(last)
    /\ last.env.kbs = "fail"
    /\ last.env.sts = "fail"
    /\ Contains(last.output, "(KB list failed: ")
    /\ Contains(last.output, "(caller identity lookup failed: ")

(***************************************************************************)
(* Properties of the resolver.                                             *)
(***************************************************************************)
\* C5: once resolve(id) has returned a reference, every later call with the
\* same id returns that reference and issues no remote call.
ResolverIdempotent ==
    (last.op = "resolve" /\ last.prior # NoArn) =>
        /\ ~last.raised
        /\ last.arn = last.prior
        /\ last.calls = <<>>

\* the listed profiles of a type that have a model matching model_id
ServedBy(model_id, type) ==
    {p \in {remote.profiles[i] : i \in 1..Len(remote.profiles)} :
        p.type = type /\ Matches(p, model_id)}
BothServe(model_id) ==
    /\ ServedBy(model_id, "SYSTEM_DEFINED") # {}
    /\ ServedBy(model_id, "APPLICATION") # {}

\* C6: when a system-provided and a user-defined profile both serve the
\* model id, the search returns a system-provided profile that serves it,
\* whatever the listing order and the names; it raises only when a
\* control-plane call fails (SpecSelect).
ResolverTieBreak ==
    (last.op = "resolve" /\ BothServe(last.arg)) =>
        /\ last.raised <=> remote.fault # "none"
        /\ ~last.raised =>
              \E p \in ServedBy(last.arg, "SYSTEM_DEFINED") :
                  last.arn = p.inferenceProfileArn
\* the user-defined profile is listed first and has the smaller name
ResolverTieBreakWitness ==
    /\ last.op = "resolve" /\ BothServe(last.arg) /\ ~last.raised
    /\ Len(remote.profiles) = 2
    /\ remote.profiles[1].type = "APPLICATION"
    /\ remote.profiles[1].name < remote.profiles[2].name
    /\ last.arn = remote.profiles[2].inferenceProfileArn

\* C7: with INFERENCE_PROFILE_ARN configured, resolve returns exactly that
\* value for every model id and issues no listing and no detail call.
OverrideBypass ==
    (last.op = "resolve" /\ INFERENCE_PROFILE_ARN # NoArn) =>
        /\ ~last.raised
        /\ last.arn = INFERENCE_PROFILE_ARN
        /\ last.calls = <<>>
\* ... also while the listing call would fail
OverrideBypassWitness ==
    /\ last.op = "resolve" /\ INFERENCE_PROFILE_ARN # NoArn
    /\ last.arg # MODEL_ID
    /\ remote.fault = "list"
    /\ cache = <<[key |-> last.arg, value |-> INFERENCE_PROFILE_ARN]>>

(***************************************************************************)
(* Properties of concurrent resolution (SpecConcurrent).                   *)
(***************************************************************************)
\* the outcomes of all finished calls of all callers
AllRets == UNION {{callers[t].rets[k] : k \in 1..Len(callers[t].rets)}
                  : t \in 1..MaxCallers}

\* C9: all callers end with the same outcome, which is the reference a lone
\* caller would get; once a caller has a reference, its later calls are
\* cache hits returning that reference; the cache never holds another value.
ConcurrentResolveConverges ==
    /\ \A a, b \in AllRets : a.out = b.out
    /\ \A a \in AllRets :
          LET r == ResolveBody(remote, INFERENCE_PROFILE_ARN, MODEL_ID)
          IN  a.out = IF r.raised THEN "raised" ELSE r.arn
    /\ \A t \in 1..MaxCallers : \A j, k \in 1..Len(callers[t].rets) :
          (j < k /\ callers[t].rets[j].out # "raised") =>
              callers[t].rets[k] = Ret(callers[t].rets[j].out, TRUE)
    /\ \A i \in 1..Len(cache) : \A a \in AllRets :
          a.out # "raised" => cache[i] = [key |-> MODEL_ID, value |-> a.out]
\* two callers both missed the cache, looked up remotely and returned, and
\* one of them then called again
ConcurrentResolveWitness ==
    \E t, u \in 1..MaxCallers :
        /\ t # u
        /\ Len(callers[t].rets) = 2 /\ Len(callers[u].rets) >= 1
        /\ ~callers[t].rets[1].hit /\ ~callers[u].rets[1].hit
        /\ callers[t].rets[1].out \in ProfileArns
        /\ callers[t].rets[2].hit
        /\ Len(remote.profiles) = 2

(***************************************************************************)
(* Properties of the session transcript (SpecApp).                         *)
(***************************************************************************)
\* C10: after any sequence of submissions, every user message of
\* chat_history is immediately followed by an assistant message.
NoDanglingTurn ==
    \A i \in 1..Len(message_history) :
        message_history[i].role = "user" =>
            /\ i < Len(message_history)
            /\ message_history[i + 1].role = "assistant"

(***************************************************************************)
(* Further properties of the chat calls (Spec).                            *)
(***************************************************************************)
\* how many entries of a call log are among the named calls
Count(calls, names) == Cardinality({i \in 1..Len(calls) : calls[i] \in names})

\* the generation request of a chat function
GenerationCall(op) ==
    IF op = "chat_with_kb" THEN "retrieve_and_generate" ELSE "converse"

\* C11: one chat call issues exactly one generation request when the target
\* was resolved and none when resolution failed, whatever the request's
\* outcome; it never issues the other function's request.
NoAutomaticRetry ==
    IsChat(last) =>
        /\ Count(last.calls, {GenerationCall(last.op)})
             = IF last.arn = NoArn THEN 0 ELSE 1
        /\ Count(last.calls, {"retrieve_and_generate", "converse"}) <= 1
NoAutomaticRetryWitness ==
    /\ last.op = "chat_with_kb"
    /\ last.env.rag = "ThrottlingException"
    /\ last.arn # NoArn
    /\ Count(last.calls, {"retrieve_and_generate"}) = 1
    /\ last.output[1] = "Error during "

\* the call ran _caller_identity_safe
ProbeInvoked(c) ==
    /\ IsChat(c)
    /\ c.arn # NoArn
    /\ \/ c.env.rag = "ThrottlingException"
       \/ c.op = "chat_with_kb" /\ c.env.rag = "ResourceNotFoundException"

\* C12: whatever the outcome of the identity lookup (or of creating its
\* client), the chat call that ran it returns normally with the diagnostic of
\* its failure class; the text carries account and principal on success, and
\* otherwise says that the lookup failed, with the error's type and message.
IdentityProbeNeverRaises ==
    ProbeInvoked(last) =>
        /\ ~last.raised
        /\ last.appended = <<"user", "assistant">>
        /\ last.output[1] = IF last.env.rag = "ThrottlingException"
                             THEN "Error during "
                             ELSE "Knowledge Base not found."
        /\ last.env.sts = "ok" =>
              /\ Contains(last.output, "123456789012")
              /\ Contains(last.output, "arn:caller")
        /\ last.env.sts # "ok" =>
              /\ Contains(last.output, "(caller identity lookup failed: ")
              /\ Contains(last.output, StsError(last.env.sts).type)
              /\ Contains(last.output, StsError(last.env.sts).msg)
IdentityProbeNeverRaisesWitness ==
    /\ ProbeInvoked(last)
    /\ last.op = "chat_with_model"
    /\ last.env.sts = "no_client"
    /\ ~last.raised
    /\ Contains(last.output, "ProfileNotFound")

\* the first piece of the diagnostic text of a failure class
DiagnosticHead(rag) ==
    IF rag = "ResourceNotFoundException" THEN "Knowledge Base not found."
    ELSE IF rag = "AccessDeniedException" THEN "AccessDenied: "
    ELSE "Error during "

\* C13: the text a chat call returns is the text of the assistant message
\* it appended as the last element of the history; after a successful
\* request it is exactly the generated text, after a failed one the
\* diagnostic of the failure class.
ReplyConsistency ==
    (IsChat(last) /\ ~last.raised) =>
        /\ message_history # <<>>
        /\ message_history[Len(message_history)]
             = ChatMessage("assistant", last.output)
        /\ last.env.rag = "ok" => last.output = last.env.gen
        /\ last.env.rag # "ok" =>
              /\ last.output[1] = DiagnosticHead(last.env.rag)
              /\ last.output \notin GenTexts
ReplyConsistencyWitness ==
    /\ last.op = "chat_with_kb" /\ ~last.raised
    /\ last.env.rag = "ok"
    /\ last.env.gen # GeneratedText
    /\ Len(message_history) = MAX_MESSAGES + 1
    /\ message_history[Len(message_history)].text = last.env.gen

\* the history right after the user append and trim of the chat call that
\* led to history h: h without the assistant message the call appended
BeforeReply(h, c) ==
    IF c.appended = <<"user", "assistant">> THEN SubSeq(h, 1, Len(h) - 1) ELSE h

\* C14: in every chat call, the trim after the user append leaves the
\* history as it is when it has at most MAX_MESSAGES messages, and
\* otherwise keeps exactly its last MAX_MESSAGES messages, unchanged and in
\* order; with MAX_MESSAGES >= 1 the new user message is kept.
TrimStep ==
    [][(remote' = remote /\ IsChat(last')) =>
          LET pre == Append(message_history, ChatMessage("user", last'.arg))
              h1 == BeforeReply(message_history', last')
              n == Len(pre) - MAX_MESSAGES
          IN  /\ n <= 0 => h1 = pre
              /\ n > 0 =>
                    /\ Len(h1) = MAX_MESSAGES
                    /\ \A i \in 1..Len(h1) : h1[i] = pre[n + i]
              /\ MAX_MESSAGES >= 1 =>
                    /\ h1 # <<>>
                    /\ h1[Len(h1)] = ChatMessage("user", last'.arg)
      ]_vars
\* a call whose trim discarded the oldest message, a user message
TrimStepWitness ==
    /\ IsChat(last) /\ ~last.raised
    /\ MAX_MESSAGES >= 2
    /\ Len(message_history) = MAX_MESSAGES + 1
    /\ message_history[1].role = "assistant"
    /\ message_history[Len(message_history) - 1]
         = ChatMessage("user", last.arg)

\* the diagnostic calls of a chat function
DiagnosticCalls == {"list_knowledge_bases", "get_caller_identity"}

\* C16: in a chat call every diagnostic call (knowledge-base listing,
\* identity lookup) comes after the generation request, and none is issued
\* when that request succeeded or was never made; chat_with_kb lists the
\* knowledge bases only on resource-not-found (once, before the identity
\* lookup), looks the identity up only on resource-not-found and on the
\* generic failure, and does neither on access-denied; chat_with_model never
\* lists knowledge bases.
DiagnosticsOnlyOnFailure ==
    IsChat(last) =>
        LET calls == last.calls
            rag == last.env.rag
            lists == Count(calls, {"list_knowledge_bases"})
            idents == Count(calls, {"get_caller_identity"})
        IN  /\ \A i \in 1..Len(calls) :
                  calls[i] \in DiagnosticCalls =>
                      /\ rag # "ok"
                      /\ \E j \in 1..(i - 1) : calls[j] = GenerationCall(last.op)
            /\ (rag = "ok" \/ last.arn = NoArn) => lists = 0 /\ idents = 0
            /\ last.op = "chat_with_model" => lists = 0
            /\ last.op = "chat_with_kb" =>
                  /\ lists = IF rag = "ResourceNotFoundException"
                                 /\ last.arn # NoArn
                              THEN 1 ELSE 0
                  /\ idents > 0 => rag \in {"ResourceNotFoundException",
                                             "ThrottlingException"}
                  /\ rag = "AccessDeniedException" => lists = 0 /\ idents = 0
                  /\ \A i, j \in 1..Len(calls) :
                        (calls[i] = "list_knowledge_bases"
                         /\ calls[j] = "get_caller_identity") => i < j
\* an access-denied chat_with_kb call that stopped after the failed request
DiagnosticsOnlyOnFailureWitness ==
    /\ last.op = "chat_with_kb"
    /\ last.env.rag = "AccessDeniedException"
    /\ last.arn # NoArn
    /\ last.calls # <<>>
    /\ last.calls[Len(last.calls)] = "retrieve_and_generate"
    /\ last.output[1] = "AccessDenied: "

\* C17: the messages of a converse request are the history as it stands
\* after the user append and trim: same length, the i-th record with the
\* i-th message's role and, as its only content block, that message's text;
\* when MAX_MESSAGES >= 1 the last record is the user message with the new
\* text.
ConverseRequestContent ==
    (last.op = "chat_with_model" /\ last.arn # NoArn) =>
        LET h1 == BeforeReply(message_history, last)
            request == last.request
        IN  /\ Len(request) = Len(h1)
            /\ \A i \in 1..Len(h1) :
                  /\ request[i].role = h1[i].role
                  /\ request[i].content = <<h1[i].text>>
            /\ MAX_MESSAGES >= 1 =>
                  /\ request # <<>>
                  /\ request[Len(request)]
                       = [role |-> "user", content |-> <<last.arg>>]
\* a request sent after the trim discarded messages, carrying an earlier
\* assistant reply and the new user text
ConverseRequestContentWitness ==
    /\ last.op = "chat_with_model" /\ last.arn # NoArn
    /\ MAX_MESSAGES >= 2
    /\ Len(last.request) = MAX_MESSAGES
    /\ last.request[1].role = "assistant"
    /\ last.request[Len(last.request)].content = <<last.arg>>

\* C18: in a conversation of successful chat_with_model calls from an empty
\* history, every non-empty converse request begins with a user message and
\* alternates user / assistant.
DirectRequestAlternates ==
    (last.op = "chat_with_model" /\ last.request # <<>>) =>
        /\ last.request[1].role = "user"
        /\ \A i \in 1..(Len(last.request) - 1) :
              last.request[i].role # last.request[i + 1].role

(***************************************************************************)
(* Further properties of the resolver.                                     *)
(***************************************************************************)
\* listed profile i comes before listed profile j: system-provided before
\* user-defined, then by name, then (equal type and name) by listing position
ComesBefore(i, j) ==
    LET p == remote.profiles[i]
        q == remote.profiles[j]
        psys == p.type = "SYSTEM_DEFINED"
        qsys == q.type = "SYSTEM_DEFINED"
    IN  \/ psys /\ ~qsys
        \/ psys = qsys /\ p.name < q.name
        \/ psys = qsys /\ p.name = q.name /\ i < j

\* the positions of the listed profiles with a model matching model_id
MatchingPositions(model_id) ==
    {i \in 1..Len(remote.profiles) : Matches(remote.profiles[i], model_id)}

\* C15: without an override and with the control plane answering, resolve
\* lists once and returns the first matching candidate in the order
\* (system-provided, then name), having fetched the details of exactly the
\* candidates up to it; it raises the resolution error exactly when no
\* listed candidate matches, after fetching every candidate's detail.
ResolverSelection ==
    (last.op = "resolve" /\ INFERENCE_PROFILE_ARN = NoArn) =>
        LET hits == MatchingPositions(last.arg)
            gets == Count(last.calls, {"get_inference_profile"})
        IN  /\ (last.raised /\ last.err.type = "RuntimeError") => hits = {}
            /\ remote.fault = "none" =>
                  /\ last.calls[1] = "list_inference_profiles"
                  /\ Count(last.calls, {"list_inference_profiles"}) = 1
                  /\ last.raised <=> hits = {}
                  /\ last.raised =>
                        /\ last.err.type = "RuntimeError"
                        /\ gets = Len(remote.profiles)
                  /\ ~last.raised =>
                        \E i \in hits :
                            /\ \A j \in hits \ {i} : ComesBefore(i, j)
                            /\ last.arn = remote.profiles[i].inferenceProfileArn
                            /\ gets = 1 + Cardinality(
                                  {j \in 1..Len(remote.profiles) :
                                      j # i /\ ComesBefore(j, i)})
\* two matching candidates of one type: the one listed last has the smaller
\* name, is returned, and is the only one whose detail was fetched
ResolverSelectionWitness ==
    /\ last.op = "resolve" /\ ~last.raised
    /\ Len(remote.profiles) = 2
    /\ MatchingPositions(last.arg) = {1, 2}
    /\ remote.profiles[1].type = remote.profiles[2].type
    /\ remote.profiles[2].name < remote.profiles[1].name
    /\ last.arn = remote.profiles[2].inferenceProfileArn
    /\ Count(last.calls, {"get_inference_profile"}) = 1

\* C19: a resolver call that raises leaves the cache as it was, so the next
\* call with the same model id lists the remote profiles again and, when the
\* control plane answers and a listed profile now matches, returns the ARN
\* of a matching profile; the cache never holds anything but returned ARNs.
FailureNotMemoized ==
    [][(remote' = remote /\ last'.op = "resolve"
        /\ INFERENCE_PROFILE_ARN = NoArn) =>
          /\ last'.raised => cache' = cache
          /\ \A i \in 1..Len(cache') : cache'[i].value # NoArn
          /\ last'.after_raise =>
                /\ last'.calls # <<>>
                /\ last'.calls[1] = "list_inference_profiles"
                /\ (remote.fault = "none"
                    /\ MatchingPositions(last'.arg) # {}) =>
                      /\ ~last'.raised
                      /\ \E i \in MatchingPositions(last'.arg) :
                            last'.arn = remote.profiles[i].inferenceProfileArn
                      /\ CacheHas(cache', last'.arg)
      ]_vars
\* a call that returns an ARN right after the same call raised: the remote
\* profiles changed in between and were listed again
FailureNotMemoizedWitness ==
    /\ last.op = "resolve"
    /\ last.after_raise
    /\ ~last.raised
    /\ last.arn # NoArn
    /\ last.calls # <<>>
    /\ last.calls[1] = "list_inference_profiles"
    /\ CacheHas(cache, last.arg)

====
